---------------------------- MODULE Spec2Model ----------------------------
(***************************************************************************)
(* Quantum-kernel SVM notebooks (tutorial and challenge) as a state        *)
(* machine: the electrons get_data, partition_data, qkernel_circuit,       *)
(* qkernel_matrix, construct_K_matrix, train_qsvm and get_metrics, and the *)
(* lattice `workflow` that chains them.                                    *)
(*                                                                         *)
(* Python sequences are 0-based; TLA+ sequences are 1-based.  Loop         *)
(* variables keep the source's 0-based values and index with i + 1.        *)
(***************************************************************************)
EXTENDS Integers, Sequences, FiniteSets, TLC

(***************************************************************************)
(* Settings cell of the challenge notebook.                                *)
(***************************************************************************)
N_TEST == 2

N_TRAIN == 6

N_TOT == N_TEST + N_TRAIN

RANDOM_SEED == 2022

(***************************************************************************)
(* Generic helpers on sequences.                                           *)
(***************************************************************************)
Range(s) == {s[k] : k \in DOMAIN s}

\* F applied to the value of v, v evaluated once.
Force(F(_), v) == CHOOSE r \in {F(w) : w \in {x \in {v} : x = x}} : TRUE

Take(s, idx) == [k \in 1..Len(idx) |-> s[idx[k]]]

\* The members of a set of integers in ascending order.
Ascending(S) ==
    Force(LAMBDA T :
              Force(LAMBDA rank : [p \in 1..Cardinality(T) |-> CHOOSE k \in T : rank[k] = p],
                    [k \in T |-> Cardinality({j \in T : j <= k})]),
          S)

\* The positions of s whose element is v, in ascending order (numpy.where).
Where(s, v) == Ascending({k \in DOMAIN s : s[k] = v})

Sum3(s) ==
    LET F[k \in 0..Len(s)] == IF k = 0 THEN 0 ELSE F[k - 1] + s[k]
    IN  F[Len(s)]

(***************************************************************************)
(* IEEE-754 binary64 arithmetic, as far as train_test_split needs it:      *)
(* test_size = N_TOT / len(X) is a Python float, and the number of held    *)
(* out samples is ceil(test_size * n_samples).  A positive float is        *)
(* [m, e]: m the DOUBLE_MANT_DIG significand bits, most significant first  *)
(* and leading bit 1, standing for 0.m * 2^e.  Rounding is to nearest,     *)
(* ties to even.                                                           *)
(***************************************************************************)
DOUBLE_MANT_DIG == 53

RECURSIVE Normalise(_, _, _)
Normalise(r, d, e) ==
    IF r >= d THEN Normalise(r, 2 * d, e + 1)
    ELSE IF 2 * r < d THEN Normalise(2 * r, d, e - 1)
    ELSE <<r, d, e>>

RECURSIVE Pow2Mod(_, _)
Pow2Mod(k, d) ==
    IF k = 0 THEN 1 % d
    ELSE LET h == Pow2Mod(k \div 2, d)
         IN  IF k % 2 = 0 THEN (h * h) % d ELSE (2 * h * h) % d

\* The remainder of r * 2^k by d, and the k-th quotient bit of r / d.
DivRem(r, d, k) == ((r % d) * Pow2Mod(k, d)) % d

DivBits(r, d, n) == [k \in 1..n |-> (2 * DivRem(r, d, k - 1)) \div d]

AllOnes(bits) == \A k \in DOMAIN bits : bits[k] = 1

IncBits(bits) ==
    LET z == CHOOSE k \in DOMAIN bits :
                 bits[k] = 0 /\ \A j \in DOMAIN bits : j > k => bits[j] = 1
    IN  [k \in DOMAIN bits |-> IF k < z THEN bits[k] ELSE IF k = z THEN 1 ELSE 0]

RoundNearestEven(bits, e, up, tie) ==
    IF up \/ (tie /\ bits[Len(bits)] = 1)
    THEN IF AllOnes(bits)
         THEN [m |-> [k \in DOMAIN bits |-> IF k = 1 THEN 1 ELSE 0], e |-> e + 1]
         ELSE [m |-> IncBits(bits), e |-> e]
    ELSE [m |-> bits, e |-> e]

FloatDivRound(nrm, rem) ==
    Force(LAMBDA bits : RoundNearestEven(bits, nrm[3], 2 * rem > nrm[2], 2 * rem = nrm[2]),
          DivBits(nrm[1], nrm[2], DOUBLE_MANT_DIG))

FloatDiv(a, b) ==
    Force(LAMBDA nrm :
              Force(LAMBDA rem : FloatDivRound(nrm, rem),
                    DivRem(nrm[1], nrm[2], DOUBLE_MANT_DIG)),
          Normalise(a, b, 0))

RECURSIVE IntBits(_)
IntBits(n) == IF n = 0 THEN <<>> ELSE IntBits(n \div 2) \o <<n % 2>>

\* bits[lo..hi] times n plus carry: <<the product's low hi-lo+1 bits, carry out>>.
\* The low half is computed first and its carry handed to the high half.
RECURSIVE MulRange(_, _, _, _, _)
MulRange(bits, n, lo, hi, carry) ==
    IF lo > hi THEN <<(<<>>), carry>>
    ELSE IF lo = hi
    THEN <<(<<(bits[lo] * n + carry) % 2>>), (bits[lo] * n + carry) \div 2>>
    ELSE LET mid == (lo + hi) \div 2
         IN  CHOOSE res \in
                 { CHOOSE both \in
                       { <<left[1] \o right[1], left[2]>> :
                             left \in {MulRange(bits, n, lo, mid, right[2])} } : TRUE :
                   right \in {MulRange(bits, n, mid + 1, hi, carry)} } : TRUE

MulBits(bits, n) ==
    LET p == MulRange(bits, n, 1, Len(bits), 0) IN IntBits(p[2]) \o p[1]

FloatMulRound(f, prod) ==
    LET extra == Len(prod) - Len(f.m)
        keep  == SubSeq(prod, 1, DOUBLE_MANT_DIG)
        tail  == SubSeq(prod, DOUBLE_MANT_DIG + 1, Len(prod))
        half  == tail # <<>> /\ tail[1] = 1
        more  == \E k \in 2..Len(tail) : tail[k] = 1
    IN  RoundNearestEven(keep, f.e + extra, half /\ more, half /\ ~more)

FloatMulInt(f, n) ==
    Force(LAMBDA m : Force(LAMBDA prod : FloatMulRound(f, prod), MulBits(m, n)), f.m)

BitsToInt(bits) ==
    LET F[k \in 0..Len(bits)] == IF k = 0 THEN 0 ELSE 2 * F[k - 1] + bits[k]
    IN  F[Len(bits)]

FloatFloor(f) ==
    IF f.e <= 0 THEN 0
    ELSE IF f.e >= Len(f.m) THEN BitsToInt(f.m) * 2 ^ (f.e - Len(f.m))
    ELSE BitsToInt(SubSeq(f.m, 1, f.e))

FloatIsInt(f) ==
    /\ f.e > 0
    /\ \A k \in DOMAIN f.m : k > f.e => f.m[k] = 0

\* Mutant of FloatCeil: int(f) + 1, off by one on a whole number.
FloatTruncPlusOne(f) == FloatFloor(f) + 1

FloatCeil(f) == IF FloatIsInt(f) THEN FloatFloor(f) ELSE FloatFloor(f) + 1

(***************************************************************************)
(* numpy.random.RandomState, as train_test_split uses it.  The bit         *)
(* generator is a deterministic state machine; which permutation a given   *)
(* seed yields is a fact of the library, so the generator's parameters are *)
(* an input of the model: a multiplier and an increment, state modulo      *)
(* RngModulus.  RandomState(seed) starts it from the seed.                 *)
(***************************************************************************)
RngModulus == 32749

Generators == { [mult |-> 75, inc |-> 74], [mult |-> 219, inc |-> 1] }

RandomState(seed) == seed % RngModulus

NextState(gen, s) == (gen.mult * s + gen.inc) % RngModulus

\* rk_interval(max): a draw from 0..max and the generator's next state.
Interval(gen, s, max) == <<NextState(gen, s) % (max + 1), NextState(gen, s)>>

\* One step of the shuffle loop, 0-based i: swap x[i] with x[j], j drawn from 0..i.
ShuffleStep(gen, acc, i) ==
    LET d == Interval(gen, acc[2], i)
        j == d[1]
        a == acc[1]
    IN  <<[a EXCEPT ![i + 1] = a[j + 1], ![j + 1] = a[i + 1]], d[2]>>

\* for i in reversed(range(lo, hi + 1)): the upper half first, then the lower.
RECURSIVE ShuffleRange(_, _, _, _)
ShuffleRange(gen, acc, lo, hi) ==
    IF lo > hi THEN acc
    ELSE IF lo = hi THEN ShuffleStep(gen, acc, lo)
    ELSE LET mid == (lo + hi) \div 2
         IN  CHOOSE r \in
                 { ShuffleRange(gen, upper, lo, mid) :
                       upper \in {ShuffleRange(gen, acc, mid + 1, hi)} } : TRUE

\* RandomState.permutation(x) for a sequence x: <<a shuffled copy, next state>>.
Permutation(gen, s, a) == ShuffleRange(gen, <<a, s>>, 1, Len(a) - 1)

\* RandomState.permutation(n): a permutation of 0..n-1, kept 1-based as 1..n.
PermutationN(gen, s, n) == Permutation(gen, s, [k \in 1..n |-> k])

(***************************************************************************)
(* sklearn.model_selection: _validate_shuffle_split, _approximate_mode,    *)
(* StratifiedShuffleSplit and train_test_split.                            *)
(***************************************************************************)
ValueError == [ok |-> FALSE]

\* test_size is a float strictly between 0 and 1; n_test = ceil(test_size * n).
ValidateShuffleSplit(n_samples, test_size) ==
    Force(LAMBDA size :
        Force(LAMBDA n_test :
                  IF size.e > 0 \/ n_samples = 0 THEN ValueError
                  ELSE IF n_samples - n_test <= 0 THEN ValueError
                  ELSE [ok |-> TRUE, n_train |-> n_samples - n_test, n_test |-> n_test],
              Force(LAMBDA prod : FloatCeil(prod), FloatMulInt(size, n_samples))),
        test_size)

\* One pass of _approximate_mode's loop over a remainder value: the classes that
\* carry it, as many of them as are still needed, drawn by rng.choice.
ApproxAddDrawn(acc, inds, drawn) ==
    LET floored == acc[1]
        need    == acc[3]
        add_now == IF Len(inds) < need THEN Len(inds) ELSE need
        chosen  == {inds[drawn[1][k]] : k \in 1..add_now}
    IN  << [c \in DOMAIN floored |->
                IF c \in chosen THEN floored[c] + 1 ELSE floored[c]],
            drawn[2], need - add_now >>

ApproxAdd(gen, acc, rem, value) ==
    IF acc[3] = 0 THEN acc
    ELSE Force(LAMBDA inds :
                   Force(LAMBDA drawn : ApproxAddDrawn(acc, inds, drawn),
                         PermutationN(gen, acc[2], Len(inds))),
               Where(rem, value))

RECURSIVE ApproxLoop(_, _, _, _)
ApproxLoop(gen, acc, rem, values) ==
    IF values = {} THEN acc
    ELSE LET v == CHOOSE w \in values : \A z \in values : w >= z
         IN  CHOOSE r \in
                 { ApproxLoop(gen, nxt, rem, values \ {v}) :
                       nxt \in {ApproxAdd(gen, acc, rem, v)} } : TRUE

\* _approximate_mode(class_counts, n_draws, rng): <<counts per class, next state>>.
\* class_counts * n_draws / total is kept exact: quotient and remainder by total.
ApproximateModeOf(gen, s, floored, rem, need) ==
    IF need > 0
    THEN Force(LAMBDA out : <<out[1], out[2]>>,
               ApproxLoop(gen, <<floored, s, need>>, rem, {rem[c] : c \in DOMAIN rem}))
    ELSE <<floored, s>>

ApproximateMode(gen, s, class_counts, n_draws) ==
    Force(LAMBDA total :
        Force(LAMBDA floored :
            Force(LAMBDA rem :
                Force(LAMBDA need : ApproximateModeOf(gen, s, floored, rem, need),
                      n_draws - Sum3(floored)),
                [c \in DOMAIN class_counts |-> (class_counts[c] * n_draws) % total]),
            [c \in DOMAIN class_counts |-> (class_counts[c] * n_draws) \div total]),
        Sum3(class_counts))

\* The per-class part of StratifiedShuffleSplit._iter_indices: class c's rows
\* are permuted, the first n_i[c] go to train and the next t_i[c] to test.
\* Mutant of ClassLoopTake: the test slice starts one row early.
ClassLoopTakeOverlapping(acc, rows, state, n, t) ==
    << acc[1] \o SubSeq(rows, 1, n), acc[2] \o SubSeq(rows, n, n + t - 1), state >>

ClassLoopTake(acc, rows, state, n, t) ==
    << acc[1] \o SubSeq(rows, 1, n), acc[2] \o SubSeq(rows, n + 1, n + t), state >>

ClassLoopStep(gen, acc, class_indices, n_i, t_i, c) ==
    Force(LAMBDA p :
              Force(LAMBDA rows : ClassLoopTake(acc, rows, p[2], n_i[c], t_i[c]),
                    Take(class_indices[c], p[1])),
          PermutationN(gen, acc[3], Len(class_indices[c])))

RECURSIVE ClassLoop(_, _, _, _, _, _, _)
ClassLoop(gen, acc, class_indices, n_i, t_i, c, n_classes) ==
    IF c > n_classes THEN acc
    ELSE CHOOSE r \in
             { ClassLoop(gen, nxt, class_indices, n_i, t_i, c + 1, n_classes) :
                   nxt \in {ClassLoopStep(gen, acc, class_indices, n_i, t_i, c)} } : TRUE

\* _iter_indices once n_i (train) and t_i (test) counts per class are known:
\* the class loop, then train = rng.permutation(train), test = rng.permutation(test).
IterIndices(gen, class_indices, ni, ti) ==
    Force(LAMBDA loop :
              Force(LAMBDA trn :
                        Force(LAMBDA tst : [ok |-> TRUE, train |-> trn[1],
                                            test |-> tst[1], state |-> tst[2]],
                              Permutation(gen, trn[2], loop[2])),
                    Permutation(gen, loop[3], loop[1])),
          ClassLoop(gen, <<(<<>>), (<<>>), ti[2]>>, class_indices,
                    ni[1], ti[1], 1, Len(class_indices)))

SplitClasses(gen, s0, class_indices, n_train, n_test) ==
    LET n_classes == Len(class_indices)
    IN  Force(LAMBDA class_counts :
            IF \E c \in 1..n_classes : class_counts[c] < 2 THEN ValueError
            ELSE IF n_train < n_classes \/ n_test < n_classes THEN ValueError
            ELSE Force(LAMBDA ni :
                     Force(LAMBDA left :
                         Force(LAMBDA ti : IterIndices(gen, class_indices, ni, ti),
                               ApproximateMode(gen, ni[2], left, n_test)),
                         [c \in 1..n_classes |-> class_counts[c] - ni[1][c]]),
                     ApproximateMode(gen, s0, class_counts, n_train)),
            [c \in 1..n_classes |-> Len(class_indices[c])])

\* StratifiedShuffleSplit(n_splits=1).split: the train and test row positions.
StratifiedShuffleSplit(gen, s0, y, n_train, n_test) ==
    Force(LAMBDA labels :
        Force(LAMBDA classes :
                  Force(LAMBDA class_indices :
                            Force(LAMBDA sizes :
                                      SplitClasses(gen, sizes[1], class_indices,
                                                   sizes[2], sizes[3]),
                                  <<s0, n_train, n_test>>),
                        [c \in 1..Len(classes) |-> Where(labels, classes[c])]),
              Ascending({labels[k] : k \in DOMAIN labels})),
        y)

\* check_random_state: an int seeds a fresh RandomState, None is numpy's global one.
\* The random_state argument: an int, or None.
IntSeed(seed) == [is_none |-> FALSE, seed |-> seed]

NoneSeed == [is_none |-> TRUE]

check_random_state(random_state, np_random) ==
    IF random_state.is_none THEN np_random ELSE RandomState(random_state.seed)

\* Mutant of train_test_split: random_state is dropped, so the split draws from
\* numpy's global generator.
train_test_split_unseeded(gen, random_state, np_random, y, test_size) ==
    Force(LAMBDA n :
        IF ~n.ok THEN ValueError
        ELSE Force(LAMBDA cv :
                 IF ~cv.ok THEN ValueError
                 ELSE [ok |-> TRUE, train |-> cv.train, test |-> cv.test,
                       np_random |-> cv.state],
                 StratifiedShuffleSplit(gen, np_random, y, n.n_train, n.n_test)),
        ValidateShuffleSplit(Len(y), test_size))

\* train_test_split(X, y, test_size=..., random_state=..., stratify=y): the row
\* positions of the two parts, and the state numpy's global generator is left in.
train_test_split(gen, random_state, np_random, y, test_size) ==
    Force(LAMBDA n :
        IF ~n.ok THEN ValueError
        ELSE Force(LAMBDA cv :
                 IF ~cv.ok THEN ValueError
                 ELSE [ok |-> TRUE, train |-> cv.train, test |-> cv.test,
                       np_random |-> IF random_state.is_none THEN cv.state
                                     ELSE np_random],
                 StratifiedShuffleSplit(gen,
                     check_random_state(random_state, np_random),
                     y, n.n_train, n.n_test)),
        ValidateShuffleSplit(Len(y), test_size))

(***************************************************************************)
(* sklearn.datasets.load_wine: 178 wines in 13 columns, classes 0, 1, 2 in *)
(* blocks of 59, 71 and 48 rows.  The measurements are an input of the     *)
(* model: small integers laid out by a pattern [mult, w0, w1], colour      *)
(* intensity in column 9 and hue in column 10 (0-based).                   *)
(***************************************************************************)
WINE_CLASS_COUNTS == <<59, 71, 48>>

WINE_COLUMNS == 13

WineDatasets ==
    { [mult |-> 1, w0 |-> 5, w1 |-> 4],
      [mult |-> 3, w0 |-> 4, w1 |-> 3],
      [mult |-> 7, w0 |-> 3, w1 |-> 1] }

WineLabel(r) ==
    IF r <= WINE_CLASS_COUNTS[1] THEN 0
    ELSE IF r <= WINE_CLASS_COUNTS[1] + WINE_CLASS_COUNTS[2] THEN 1
    ELSE 2

\* The measurement in column c (1-based) of wine r.
WineFeature(wine, r, c) ==
    IF c = 10 THEN (r * wine.mult) % wine.w0
    ELSE IF c = 11 THEN (r \div 3 + r * wine.mult) % wine.w1
    ELSE 0

WINE_SAMPLES == Sum3(WINE_CLASS_COUNTS)

load_wine(wine) ==
    [ features |->
          [r \in 1..WINE_SAMPLES |-> [c \in 1..WINE_COLUMNS |-> WineFeature(wine, r, c)]],
      labels |-> [r \in 1..WINE_SAMPLES |-> WineLabel(r)] ]

(***************************************************************************)
(* sklearn.preprocessing.MinMaxScaler((0, 2 * PI)).  A scaled value is     *)
(* 2 * PI * num / den, kept exact as [num, den]: num = x - min of the      *)
(* column, den = max - min of the column (1 when the column is constant).  *)
(***************************************************************************)
SeqMin(S) == CHOOSE m \in S : \A z \in S : m <= z

SeqMax(S) == CHOOSE m \in S : \A z \in S : m >= z

MinMaxScalerFit(X) ==
    [c \in 1..2 |->
        LET col == {X[r][c] : r \in DOMAIN X}
        IN  [data_min   |-> SeqMin(col),
             data_range |-> IF SeqMax(col) = SeqMin(col) THEN 1
                            ELSE SeqMax(col) - SeqMin(col)]]

MinMaxScalerTransform(scaler, X) ==
    [r \in DOMAIN X |->
        [c \in 1..2 |-> [num |-> X[r][c] - scaler[c].data_min,
                         den |-> scaler[c].data_range]]]

(***************************************************************************)
(* The electrons.                                                          *)
(***************************************************************************)
\* features[:, 9:11]
SelectColumns(features) ==
    [r \in DOMAIN features |-> <<features[r][10], features[r][11]>>]

\* Tutorial get_data: all three classes.  rows records which wine each returned
\* sample is: it is not part of what the electron returns.
get_data_tutorial(wine) ==
    LET X == SelectColumns(load_wine(wine).features)
        y == load_wine(wine).labels
    IN  Force(LAMBDA XX : [X |-> Force(LAMBDA scaler : MinMaxScalerTransform(scaler, XX), MinMaxScalerFit(XX)),
                           y |-> y, rows |-> [r \in DOMAIN y |-> r]], X)

\* Mutant of NeglectThirdClass: idx = (y <= 2).
NeglectNoClass(y) == Ascending({r \in DOMAIN y : y[r] <= 2})

\* idx = (y < 2), as the row positions it keeps.
NeglectThirdClass(y) == Ascending({r \in DOMAIN y : y[r] < 2})

\* Challenge get_data: the third class is neglected, X and y by the same idx.
get_data_challenge(wine) ==
    LET X   == SelectColumns(load_wine(wine).features)
        y   == load_wine(wine).labels
    IN  Force(LAMBDA idx :
            Force(LAMBDA XX : [X |-> Force(LAMBDA scaler : MinMaxScalerTransform(scaler, XX), MinMaxScalerFit(XX)),
                               y |-> Take(y, idx), rows |-> idx],
                  Take(X, idx)),
            NeglectThirdClass(y))

get_data(variant, wine) ==
    IF variant = "challenge" THEN get_data_challenge(wine)
    ELSE get_data_tutorial(wine)

\* Tutorial partition_data: one split, test_size=0.25.
partition_data_tutorial(gen, np_random, X, y) ==
    Force(LAMBDA sp :
        IF ~sp.ok THEN ValueError
        ELSE [ok |-> TRUE,
              X_train |-> Take(X, sp.train), X_test |-> Take(X, sp.test),
              y_train |-> Take(y, sp.train), y_test |-> Take(y, sp.test),
              train_rows |-> sp.train, test_rows |-> sp.test,
              held_rows |-> [k \in DOMAIN X |-> k],
              np_random |-> sp.np_random],
        train_test_split(gen, IntSeed(RANDOM_SEED), np_random, y, FloatDiv(25, 100)))

\* The challenge's second split, of the (X0, y0) the first one held out.
partition_data_second(gen, X, y, first) ==
    Force(LAMBDA sp :
        IF ~sp.ok THEN ValueError
        ELSE [ok |-> TRUE,
              X_train |-> Take(Take(X, first.test), sp.train),
              X_test  |-> Take(Take(X, first.test), sp.test),
              y_train |-> Take(Take(y, first.test), sp.train),
              y_test  |-> Take(Take(y, first.test), sp.test),
              train_rows |-> Take(first.test, sp.train),
              test_rows  |-> Take(first.test, sp.test),
              held_rows  |-> first.test,
              np_random |-> sp.np_random],
        train_test_split(gen, IntSeed(RANDOM_SEED), first.np_random,
                         Take(y, first.test), FloatDiv(N_TEST, N_TOT)))

\* Challenge partition_data: N_TOT samples are held out, then split again.
partition_data_challenge(gen, np_random, X, y) ==
    Force(LAMBDA first :
        IF ~first.ok THEN ValueError
        ELSE partition_data_second(gen, X, y, first),
        train_test_split(gen, IntSeed(RANDOM_SEED), np_random, y, FloatDiv(N_TOT, Len(X))))

partition_data(variant, gen, np_random, X, y) ==
    IF variant = "challenge" THEN partition_data_challenge(gen, np_random, X, y)
    ELSE partition_data_tutorial(gen, np_random, X, y)

(***************************************************************************)
(* The kernel circuit.  Angles are multiples of PI / 12; 4 * cos^2 of      *)
(* PI * m / den is an integer for the denominators the datasets produce,   *)
(* so a kernel value is kept exact as a number of sixteenths (KernelOne is *)
(* probability 1).  The devices' sampling noise is not modelled here: the  *)
(* value is the circuit's exact expectation.                               *)
(***************************************************************************)
Cos2x4(m, den) ==
    LET t == ((m % den) * 12) \div den
    IN  CASE t = 0 -> 4
          [] t \in {2, 10} -> 3
          [] t \in {3, 9} -> 2
          [] t \in {4, 8} -> 1
          [] t = 6 -> 0

KernelOne == 4 * 4

\* Mutant of qkernel_circuit_challenge: x2 is embedded again, not inverted.
qkernel_circuit_no_adjoint(x1, x2) ==
    Cos2x4(x1[1].num + x2[1].num, x1[1].den)
        * Cos2x4(x1[2].num + x2[2].num, x1[2].den)

\* Mutant of qkernel_circuit_tutorial: the adjoint acts on the first wire only.
qkernel_circuit_half_adjoint(x1, x2) ==
    Cos2x4(2 * (x1[1].num - x2[1].num), x1[1].den)
        * Cos2x4(2 * x1[2].num, x1[2].den)

\* Challenge: AngleEmbedding(x1), then its adjoint for x2, then <|00><00|>:
\* RX(x1 - x2) on each wire, so cos^2((x1 - x2) / 2) per wire.
qkernel_circuit_challenge(x1, x2) ==
    Cos2x4(x1[1].num - x2[1].num, x1[1].den)
        * Cos2x4(x1[2].num - x2[2].num, x1[2].den)

\* Tutorial: QAOAEmbedding with the weights CIRCUIT_PARAMS.  The weights are an
\* input of the model, here all zero: the embedding is then RX(2 x) per wire.
qkernel_circuit_tutorial(x1, x2) ==
    Cos2x4(2 * (x1[1].num - x2[1].num), x1[1].den)
        * Cos2x4(2 * (x1[2].num - x2[2].num), x1[2].den)

\* The kernel circuit of the named notebook.
qkernel_circuit(kernel, x1, x2) ==
    IF kernel = "challenge" THEN qkernel_circuit_challenge(x1, x2)
    ELSE qkernel_circuit_tutorial(x1, x2)

\* Mutant of kernel_rows: X2 outer, X1 inner.
kernel_rows_transposed(kernel, X1, X2) ==
    [j \in DOMAIN X2 |-> [i \in DOMAIN X1 |-> qkernel_circuit(kernel, X1[i], X2[j])]]

\* [[kernel(x1, x2) for x2 in X2] for x1 in X1]
kernel_rows(kernel, X1, X2) ==
    [i \in DOMAIN X1 |-> [j \in DOMAIN X2 |-> qkernel_circuit(kernel, X1[i], X2[j])]]

\* Mutant of qkernel_matrix: X2 outer, X1 inner.
qkernel_matrix_transposed(X1, X2) ==
    [j \in DOMAIN X2 |-> [i \in DOMAIN X1 |-> qkernel_circuit_tutorial(X1[i], X2[j])]]

\* Tutorial qkernel_matrix: the kernel over all pairs, X1 outer, X2 inner.
qkernel_matrix(X1, X2) == kernel_rows("tutorial", X1, X2)

\* Mutant of Reshape: Fortran order, column j is the j-th run of n1 values.
ReshapeColumnMajor(flat, n1, n2) ==
    IF Len(flat) # n1 * n2 THEN ValueError
    ELSE [ok |-> TRUE,
          matrix |-> [i \in 1..n1 |-> [j \in 1..n2 |-> flat[(j - 1) * n1 + i]]]]

\* numpy reshape((n1, n2)), C order: row i is the i-th run of n2 values.
Reshape(flat, n1, n2) ==
    IF Len(flat) # n1 * n2 THEN ValueError
    ELSE [ok |-> TRUE,
          matrix |-> [i \in 1..n1 |-> [j \in 1..n2 |-> flat[(i - 1) * n2 + j]]]]

construct_K_matrix(K_values, X1, X2) == Reshape(K_values, Len(X1), Len(X2))

NumRows(M) == Len(M)

NumCols(M) == IF Len(M) = 0 THEN 0 ELSE Len(M[1])

(***************************************************************************)
(* sklearn.svm.SVC and sklearn.metrics.confusion_matrix.  The solver is    *)
(* opaque: what is kept of a fitted classifier is its kernel parameter,    *)
(* its classes and the shape it was fitted on; its predictions are any     *)
(* labelling by its classes out of a small family.                         *)
(***************************************************************************)
\* SVC(): every parameter at its default.
SVC == [kernel |-> "rbf"]

SVCFit(svc, X, y) ==
    IF NumRows(X) # Len(y) THEN ValueError
    ELSE IF Cardinality({y[k] : k \in DOMAIN y}) < 2 THEN ValueError
    ELSE IF svc.kernel = "precomputed" /\ NumRows(X) # NumCols(X) THEN ValueError
    ELSE [ok |-> TRUE, kernel |-> svc.kernel,
          classes_ |-> Ascending({y[k] : k \in DOMAIN y}),
          shape_fit_ |-> <<NumRows(X), NumCols(X)>>]

\* The similarity the classifier uses between sample a of X and sample b of the
\* X_fit it was fitted on: the entry X[a][b] itself when the kernel is
\* precomputed, and otherwise the kernel function of row a of X and row b of
\* X_fit taken as feature vectors (for rbf, exp(-gamma * d2), d2 the squared
\* distance of the rows).
SqDist(u, v) == Sum3([k \in DOMAIN u |-> (u[k] - v[k]) * (u[k] - v[k])])

SVCSimilarity(svc, X, X_fit, a, b) ==
    IF svc.kernel = "precomputed" THEN [fn |-> "precomputed", arg |-> X[a][b]]
    ELSE [fn |-> svc.kernel, arg |-> SqDist(X[a], X_fit[b])]

\* predict: one label of classes_ per row of X.
SVCPredict(svc, X) ==
    IF NumCols(X) # svc.shape_fit_[2] THEN {}
    ELSE LET nc == Len(svc.classes_)
         IN  { [k \in 1..NumRows(X) |-> svc.classes_[c]] : c \in 1..nc }
             \cup { [k \in 1..NumRows(X) |-> svc.classes_[((k + o) % nc) + 1]] :
                        o \in 0..(nc - 1) }

train_qsvm(K_matrix_train, y_train) == SVCFit(SVC, K_matrix_train, y_train)

\* Mutant of confusion_matrix: the labels are those of y_pred alone.
confusion_matrix_predicted_labels(y_true, y_pred) ==
    LET labels == Ascending({y_pred[k] : k \in DOMAIN y_pred})
    IN  [i \in DOMAIN labels |-> [j \in DOMAIN labels |->
            Cardinality({k \in DOMAIN y_true :
                            y_true[k] = labels[i] /\ y_pred[k] = labels[j]})]]

confusion_matrix(y_true, y_pred) ==
    LET labels == Ascending({y_true[k] : k \in DOMAIN y_true}
                            \cup {y_pred[k] : k \in DOMAIN y_pred})
    IN  [i \in DOMAIN labels |-> [j \in DOMAIN labels |->
            Cardinality({k \in DOMAIN y_true :
                            y_true[k] = labels[i] /\ y_pred[k] = labels[j]})]]

\* get_metrics, for the y_pred that trained_svc.predict(K_matrix_test) returned.
get_metrics(y_pred, y_test) ==
    IF Len(y_pred) # Len(y_test) THEN ValueError
    ELSE [ok |-> TRUE, y_pred |-> y_pred, M_conf |-> confusion_matrix(y_test, y_pred)]

(***************************************************************************)
(* The dispatched workflow.  Calling an electron inside the lattice adds a *)
(* node to the transport graph; the dispatcher runs a node once the nodes  *)
(* it takes its arguments from are done.                                   *)
(***************************************************************************)
Workers == 2

VARIABLES
    variant,         \* which notebook: "tutorial" or "challenge"
    wine,            \* the dataset load_wine returns
    gen,             \* the generator behind numpy's RandomState
    np_random,       \* numpy's global RandomState
    status,          \* of the dispatch: "NEW", "RUNNING", "COMPLETED", "RETURNED"
    tasks,           \* the qkernel_circuit nodes, in the order they were created
    K_train_values,  \* the workflow's list, as node ids
    K_test_values,   \* the workflow's list, as node ids
    started,         \* qkernel_circuit nodes handed to the executor so far
    running,         \* qkernel_circuit nodes executing
    results,         \* node id -> value, of the finished qkernel_circuit nodes
    done,            \* the other electrons that have finished
    data,            \* get_data's output
    split,           \* partition_data's output
    K_matrix_train, K_matrix_test, trained_svc, metrics,
    result,          \* what the workflow returned
    rs,              \* a direct call of construct_K_matrix: arguments and output
    calls,           \* direct calls of partition_data: global RNG state and output
    draws,           \* draws other code made from the global RNG
    failed,          \* the qkernel_circuit nodes that raised
    kq,              \* direct calls of the kernel circuit: samples and values
    py_random,       \* the generator behind Python's random module
    qtasks           \* qkernel_circuit electrons running in one executor

vars == <<variant, wine, gen, np_random, status, tasks, K_train_values,
          K_test_values, started, running, results, done, data, split,
          K_matrix_train, K_matrix_test, trained_svc, metrics, result,
          rs, calls, draws, failed, kq, py_random, qtasks>>

NotYet == <<>>

\* Mutant of NestedLoop: the loops are exchanged, j outer and i inner.
NestedLoopExchanged(A, n_outer, B, n_inner) ==
    [k \in 1..(n_outer * n_inner) |->
        [x1 |-> [of |-> A, at |-> (k - 1) % n_outer],
         x2 |-> [of |-> B, at |-> (k - 1) \div n_outer]]]

\* Mutant of NestedLoop: the inner loop starts at the outer index.
NestedLoopFromOuterIndex(A, n_outer, B, n_inner) ==
    SelectSeq([k \in 1..(n_outer * n_inner) |->
                  [x1 |-> [of |-> A, at |-> (k - 1) \div n_inner],
                   x2 |-> [of |-> B, at |-> (k - 1) % n_inner]]],
              LAMBDA pair : pair.x2.at >= pair.x1.at)

\* for i in range(n_outer): for j in range(n_inner): append(kernel(A[i], B[j]))
NestedLoop(A, n_outer, B, n_inner) ==
    [k \in 1..(n_outer * n_inner) |->
        [x1 |-> [of |-> A, at |-> (k - 1) \div n_inner],
         x2 |-> [of |-> B, at |-> (k - 1) % n_inner]]]

TrainLoop == NestedLoop("X_train", N_TRAIN, "X_train", N_TRAIN)

TestLoop == NestedLoop("X_test", N_TEST, "X_train", N_TRAIN)

\* X_train[i] or X_test[i], zero-based.
Subscript(sp, ref) ==
    IF ref.of = "X_train" THEN sp.X_train[ref.at + 1] ELSE sp.X_test[ref.at + 1]

WorkflowVars == <<tasks, K_train_values, K_test_values, started, running,
                  results, done, data, split, K_matrix_train, K_matrix_test,
                  trained_svc, metrics, result>>

Inputs == <<variant, wine, gen, np_random>>

Direct == <<rs, calls, draws>>

Others == <<failed, kq, py_random, qtasks>>

InitOthers == failed = {} /\ kq = NotYet /\ py_random = 0 /\ qtasks = <<>>

InitWorkflow ==
    /\ status = "NEW"
    /\ tasks = <<>> /\ K_train_values = <<>> /\ K_test_values = <<>>
    /\ started = 0 /\ running = {} /\ results = <<>> /\ done = {}
    /\ data = NotYet /\ split = NotYet
    /\ K_matrix_train = NotYet /\ K_matrix_test = NotYet
    /\ trained_svc = NotYet /\ metrics = NotYet /\ result = NotYet

InitDirect == rs = NotYet /\ calls = <<>> /\ draws = 0

Init ==
    /\ variant \in {"tutorial", "challenge"}
    /\ wine \in WineDatasets
    /\ gen \in Generators
    /\ np_random = RandomState(RANDOM_SEED)
    /\ InitWorkflow
    /\ InitDirect
    /\ InitOthers

\* ct.dispatch(workflow)(): the lattice body runs and builds the graph.
Dispatch ==
    /\ status = "NEW"
    /\ status' = "RUNNING"
    /\ IF variant = "challenge"
       THEN /\ tasks' = TrainLoop \o TestLoop
            /\ K_train_values' = [k \in 1..Len(TrainLoop) |-> k]
            /\ K_test_values' = [k \in 1..Len(TestLoop) |-> Len(TrainLoop) + k]
       ELSE UNCHANGED <<tasks, K_train_values, K_test_values>>
    /\ UNCHANGED <<started, running, results, done, data, split, K_matrix_train,
                   K_matrix_test, trained_svc, metrics, result>>
    /\ UNCHANGED <<Inputs, Direct, Others>>

ExecGetData ==
    /\ status = "RUNNING" /\ "get_data" \notin done
    /\ data' = get_data(variant, wine)
    /\ done' = done \cup {"get_data"}
    /\ UNCHANGED <<status, tasks, K_train_values, K_test_values, started, running,
                   results, split, K_matrix_train, K_matrix_test, trained_svc,
                   metrics, result>>
    /\ UNCHANGED <<Inputs, Direct, Others>>

ExecPartitionData ==
    /\ status = "RUNNING" /\ "get_data" \in done /\ "partition_data" \notin done
    /\ \E out \in {partition_data(variant, gen, np_random, data.X, data.y)} :
          /\ out.ok
          /\ split' = [f \in (DOMAIN out) \ {"np_random"} |-> out[f]]
          /\ np_random' = out.np_random
    /\ done' = done \cup {"partition_data"}
    /\ UNCHANGED <<status, tasks, K_train_values, K_test_values, started, running,
                   results, data, K_matrix_train, K_matrix_test, trained_svc,
                   metrics, result>>
    /\ UNCHANGED <<variant, wine, gen, Direct, Others>>

\* Mutant of StartQKernel: a node is taken before its inputs exist.
StartQKernelEarly ==
    /\ status = "RUNNING"
    /\ started < Len(tasks) /\ Cardinality(running) < Workers
    /\ started' = started + 1
    /\ running' = running \cup {started + 1}
    /\ UNCHANGED <<status, tasks, K_train_values, K_test_values, results, done,
                   data, split, K_matrix_train, K_matrix_test, trained_svc,
                   metrics, result>>
    /\ UNCHANGED <<Inputs, Direct, Others>>

\* The executor takes the next qkernel_circuit node when a worker is free.
StartQKernel ==
    /\ status = "RUNNING" /\ "partition_data" \in done
    /\ started < Len(tasks) /\ Cardinality(running) < Workers
    /\ started' = started + 1
    /\ running' = running \cup {started + 1}
    /\ UNCHANGED <<status, tasks, K_train_values, K_test_values, results, done,
                   data, split, K_matrix_train, K_matrix_test, trained_svc,
                   metrics, result>>
    /\ UNCHANGED <<Inputs, Direct, Others>>

\* Mutant of FinishQKernel: values are kept in the order the nodes finish.
FinishQKernelCompletionOrder(k) ==
    /\ status = "RUNNING" /\ k \in running
    /\ started = Len(tasks) \/ Cardinality(running) = Workers
    /\ running' = running \ {k}
    /\ results' = ((Cardinality(DOMAIN results) + 1)
                      :> qkernel_circuit_challenge(Subscript(split, tasks[k].x1),
                                                   Subscript(split, tasks[k].x2)))
                  @@ results
    /\ UNCHANGED <<status, tasks, K_train_values, K_test_values, started, done,
                   data, split, K_matrix_train, K_matrix_test, trained_svc,
                   metrics, result>>
    /\ UNCHANGED <<Inputs, Direct, Others>>

\* A running qkernel_circuit node finishes; the pool is kept full while nodes
\* are waiting.
FinishQKernel(k) ==
    /\ status = "RUNNING" /\ k \in running
    /\ started = Len(tasks) \/ Cardinality(running) = Workers
    /\ running' = running \ {k}
    /\ results' = (k :> qkernel_circuit_challenge(Subscript(split, tasks[k].x1),
                                                   Subscript(split, tasks[k].x2)))
                  @@ results
    /\ UNCHANGED <<status, tasks, K_train_values, K_test_values, started, done,
                   data, split, K_matrix_train, K_matrix_test, trained_svc,
                   metrics, result>>
    /\ UNCHANGED <<Inputs, Direct, Others>>

Gather(ids) == [k \in DOMAIN ids |-> results[ids[k]]]

Finished(ids) == \A k \in DOMAIN ids : ids[k] \in DOMAIN results

ExecConstructKTrain ==
    /\ status = "RUNNING" /\ variant = "challenge" /\ "partition_data" \in done
    /\ "K_matrix_train" \notin done /\ Finished(K_train_values)
    /\ \E out \in {construct_K_matrix(Gather(K_train_values), split.X_train, split.X_train)} :
          out.ok /\ K_matrix_train' = out.matrix
    /\ done' = done \cup {"K_matrix_train"}
    /\ UNCHANGED <<status, tasks, K_train_values, K_test_values, started, running,
                   results, data, split, K_matrix_test, trained_svc, metrics, result>>
    /\ UNCHANGED <<Inputs, Direct, Others>>

ExecConstructKTest ==
    /\ status = "RUNNING" /\ variant = "challenge" /\ "partition_data" \in done
    /\ "K_matrix_test" \notin done /\ Finished(K_test_values)
    /\ \E out \in {construct_K_matrix(Gather(K_test_values), split.X_test, split.X_train)} :
          out.ok /\ K_matrix_test' = out.matrix
    /\ done' = done \cup {"K_matrix_test"}
    /\ UNCHANGED <<status, tasks, K_train_values, K_test_values, started, running,
                   results, data, split, K_matrix_train, trained_svc, metrics, result>>
    /\ UNCHANGED <<Inputs, Direct, Others>>

ExecQKernelMatrixTrain ==
    /\ status = "RUNNING" /\ variant = "tutorial" /\ "partition_data" \in done
    /\ "K_matrix_train" \notin done
    /\ K_matrix_train' = qkernel_matrix(split.X_train, split.X_train)
    /\ done' = done \cup {"K_matrix_train"}
    /\ UNCHANGED <<status, tasks, K_train_values, K_test_values, started, running,
                   results, data, split, K_matrix_test, trained_svc, metrics, result>>
    /\ UNCHANGED <<Inputs, Direct, Others>>

ExecQKernelMatrixTest ==
    /\ status = "RUNNING" /\ variant = "tutorial" /\ "partition_data" \in done
    /\ "K_matrix_test" \notin done
    /\ K_matrix_test' = qkernel_matrix(split.X_test, split.X_train)
    /\ done' = done \cup {"K_matrix_test"}
    /\ UNCHANGED <<status, tasks, K_train_values, K_test_values, started, running,
                   results, data, split, K_matrix_train, trained_svc, metrics, result>>
    /\ UNCHANGED <<Inputs, Direct, Others>>

ExecTrainQSVM ==
    /\ status = "RUNNING" /\ "K_matrix_train" \in done /\ "train_qsvm" \notin done
    /\ \E out \in {train_qsvm(K_matrix_train, split.y_train)} :
          out.ok /\ trained_svc' = out
    /\ done' = done \cup {"train_qsvm"}
    /\ UNCHANGED <<status, tasks, K_train_values, K_test_values, started, running,
                   results, data, split, K_matrix_train, K_matrix_test, metrics, result>>
    /\ UNCHANGED <<Inputs, Direct, Others>>

ExecGetMetrics ==
    /\ status = "RUNNING" /\ "train_qsvm" \in done /\ "K_matrix_test" \in done
    /\ "get_metrics" \notin done
    /\ \E y_pred \in SVCPredict(trained_svc, K_matrix_test) :
          \E out \in {get_metrics(y_pred, split.y_test)} :
             out.ok /\ metrics' = out
    /\ done' = done \cup {"get_metrics"}
    /\ UNCHANGED <<status, tasks, K_train_values, K_test_values, started, running,
                   results, data, split, K_matrix_train, K_matrix_test, trained_svc,
                   result>>
    /\ UNCHANGED <<Inputs, Direct, Others>>

\* The lattice's return value is ready: the dispatch is complete.
Complete ==
    /\ status = "RUNNING" /\ "get_metrics" \in done
    /\ status' = "COMPLETED"
    /\ result' = [data |-> <<split.X_train, split.X_test, split.y_train, split.y_test>>,
                  y_pred |-> metrics.y_pred, M_conf |-> metrics.M_conf]
    /\ UNCHANGED <<tasks, K_train_values, K_test_values, started, running, results,
                   done, data, split, K_matrix_train, K_matrix_test, trained_svc,
                   metrics>>
    /\ UNCHANGED <<Inputs, Direct, Others>>

\* Mutant of GetResult: ct.get_result(dispatch_id, wait=False).
GetResultNoWait ==
    /\ status \in {"RUNNING", "COMPLETED"}
    /\ status' = "RETURNED"
    /\ UNCHANGED <<WorkflowVars, Inputs, Direct, Others>>

\* ct.get_result(dispatch_id, wait=True) returns and the notebook unpacks it.
GetResult ==
    /\ status = "COMPLETED"
    /\ status' = "RETURNED"
    /\ UNCHANGED <<WorkflowVars, Inputs, Direct, Others>>

Next ==
    \/ Dispatch
    \/ ExecGetData
    \/ ExecPartitionData
    \/ StartQKernel
    \/ \E k \in running : FinishQKernel(k)
    \/ ExecConstructKTrain
    \/ ExecConstructKTest
    \/ ExecQKernelMatrixTrain
    \/ ExecQKernelMatrixTest
    \/ ExecTrainQSVM
    \/ ExecGetMetrics
    \/ Complete
    \/ GetResult

Spec == Init /\ [][Next]_vars

(***************************************************************************)
(* construct_K_matrix called directly, on any list and any two arrays.     *)
(***************************************************************************)
MaxDim == 3

MaxLen == 6

KernelValues == {0, KernelOne}

SeqsUpTo(S, n) == UNION { [1..m -> S] : m \in 0..n }

InitReshape ==
    /\ variant = "challenge"
    /\ wine \in WineDatasets
    /\ gen \in Generators
    /\ np_random = RandomState(RANDOM_SEED)
    /\ status = "NEW"
    /\ tasks = <<>> /\ K_train_values = <<>> /\ K_test_values = <<>>
    /\ started = 0 /\ running = {} /\ results = <<>> /\ done = {}
    /\ data = NotYet /\ split = NotYet
    /\ K_matrix_train = NotYet /\ K_matrix_test = NotYet
    /\ trained_svc = NotYet /\ metrics = NotYet /\ result = NotYet
    /\ calls = <<>> /\ draws = 0
    /\ InitOthers
    /\ \E n1 \in 0..MaxDim, n2 \in 0..MaxDim, K_values \in SeqsUpTo(KernelValues, MaxLen) :
          rs = [K_values |-> K_values,
                X1 |-> [k \in 1..n1 |-> k], X2 |-> [k \in 1..n2 |-> k],
                called |-> FALSE, out |-> ValueError]

CallConstructKMatrix ==
    /\ ~rs.called
    /\ rs' = [rs EXCEPT !.called = TRUE,
                        !.out = construct_K_matrix(rs.K_values, rs.X1, rs.X2)]
    /\ UNCHANGED <<status, WorkflowVars, Inputs, calls, draws, Others>>

NextReshape == CallConstructKMatrix

SpecReshape == InitReshape /\ [][NextReshape]_vars

(***************************************************************************)
(* partition_data called directly and repeatedly, while other code draws   *)
(* from numpy's global RandomState in between.                             *)
(***************************************************************************)
MaxCalls == 2

MaxDraws == 3

InitPartition ==
    /\ variant \in {"tutorial", "challenge"}
    /\ wine \in WineDatasets
    /\ gen \in Generators
    /\ np_random = RandomState(RANDOM_SEED)
    /\ status = "NEW"
    /\ tasks = <<>> /\ K_train_values = <<>> /\ K_test_values = <<>>
    /\ started = 0 /\ running = {} /\ results = <<>> /\ done = {}
    /\ data = get_data(variant, wine) /\ split = NotYet
    /\ K_matrix_train = NotYet /\ K_matrix_test = NotYet
    /\ trained_svc = NotYet /\ metrics = NotYet /\ result = NotYet
    /\ rs = NotYet /\ calls = <<>> /\ draws = 0
    /\ InitOthers

CallPartitionData ==
    /\ Len(calls) < MaxCalls
    /\ \E out \in {partition_data(variant, gen, np_random, data.X, data.y)} :
          /\ calls' = Append(calls, [np_random |-> np_random,
                                     out |-> [f \in (DOMAIN out) \ {"np_random"} |-> out[f]]])
          /\ np_random' = IF out.ok THEN out.np_random ELSE np_random
    /\ UNCHANGED <<status, WorkflowVars, variant, wine, gen, rs, draws, Others>>

\* np.random.uniform and the like: the global RandomState moves on.
GlobalDraw ==
    /\ draws < MaxDraws
    /\ draws' = draws + 1
    /\ np_random' = NextState(gen, np_random)
    /\ UNCHANGED <<status, WorkflowVars, variant, wine, gen, rs, calls, Others>>

NextPartition == CallPartitionData \/ GlobalDraw

SpecPartition == InitPartition /\ [][NextPartition]_vars

(***************************************************************************)
(* The sanity check: the kernel circuit called directly on two samples,    *)
(* each feature an angle 2 PI * num / den.                                 *)
(***************************************************************************)
Denominators == {1, 2, 3, 4, 6}

Angles(den) == { [num |-> n, den |-> den] : n \in 0..den }

InitKernel ==
    /\ variant \in {"tutorial", "challenge"}
    /\ wine = CHOOSE w \in WineDatasets : TRUE
    /\ gen = CHOOSE g \in Generators : TRUE
    /\ np_random = RandomState(RANDOM_SEED)
    /\ InitWorkflow
    /\ InitDirect
    /\ failed = {} /\ py_random = 0 /\ qtasks = <<>>
    /\ \E d1 \in Denominators, d2 \in Denominators :
       \E a1 \in Angles(d1), a2 \in Angles(d1), b1 \in Angles(d2), b2 \in Angles(d2) :
          kq = [x1 |-> <<a1, b1>>, x2 |-> <<a2, b2>>, checked |-> FALSE,
                k11 |-> 0, k22 |-> 0, k12 |-> 0, k21 |-> 0, K |-> <<>>]

\* The sanity-check cell, and the kernel matrix of the two samples.
SanityCheck ==
    /\ ~kq.checked
    /\ kq' = [kq EXCEPT !.checked = TRUE,
                        !.k11 = qkernel_circuit(variant, kq.x1, kq.x1),
                        !.k22 = qkernel_circuit(variant, kq.x2, kq.x2),
                        !.k12 = qkernel_circuit(variant, kq.x1, kq.x2),
                        !.k21 = qkernel_circuit(variant, kq.x2, kq.x1),
                        !.K = kernel_rows(variant, <<kq.x1, kq.x2>>, <<kq.x1, kq.x2>>)]
    /\ UNCHANGED <<status, WorkflowVars, Inputs, Direct, failed, py_random, qtasks>>

NextKernel == SanityCheck

SpecKernel == InitKernel /\ [][NextKernel]_vars

(***************************************************************************)
(* The challenge solution's qkernel_circuit electrons, executing side by   *)
(* side in the threads of one executor ("multi-threaded execution using    *)
(* covalent").  Each electron first draws its backend with random.sample,  *)
(* which reads and advances the random module's one hidden generator, then *)
(* builds a device of its own and runs the circuit on it.  reads and       *)
(* writes record which module-level objects an electron has touched.       *)
(***************************************************************************)
IBM_HARDWARE_BACKENDS ==
    <<"ibmq_lima", "ibmq_belem", "ibmq_quito", "ibmq_manila", "ibm_nairobi", "ibm_oslo">>

MaxTasks == 3

\* The random module seeds itself from the operating system.
PySeeds == {1, 2}

\* backend_name arguments a caller may give: one of the list, one outside it.
GivenNames == {"ibmq_manila", "ibmq_qasm_simulator"}

QSamples ==
    { << [num |-> a, den |-> 2], [num |-> b, den |-> 2] >> : a \in 0..1, b \in 0..1 }

InFlight == { k \in DOMAIN qtasks : qtasks[k].pc \in {"started", "sampled"} }

InitQPU ==
    /\ variant = "challenge"
    /\ wine = CHOOSE w \in WineDatasets : TRUE
    /\ gen \in Generators
    /\ np_random = RandomState(RANDOM_SEED)
    /\ InitWorkflow
    /\ InitDirect
    /\ failed = {} /\ kq = NotYet
    /\ py_random \in PySeeds
    /\ \E x2 \in QSamples, given \in SUBSET (1..MaxTasks), name \in GivenNames :
          qtasks = [k \in 1..MaxTasks |->
                       [x1 |-> << [num |-> k % 2, den |-> 2], [num |-> (k \div 2) % 2, den |-> 2] >>,
                        x2 |-> x2, arg |-> IF k \in given THEN name ELSE "None",
                        pc |-> "pending", backend_name |-> "", drew_at |-> {},
                        device |-> "", pair |-> <<>>,
                        value |-> 0, reads |-> {}, writes |-> {}]]

\* An executor thread takes up an electron.
QStart(k) ==
    /\ qtasks[k].pc = "pending" /\ Cardinality(InFlight) < Workers
    /\ qtasks' = [qtasks EXCEPT ![k].pc = "started"]
    /\ UNCHANGED <<status, WorkflowVars, Inputs, Direct, failed, kq, py_random>>

\* Mutant of QGivenBackend: the argument is ignored and a backend is sampled.
QGivenBackendResampled(k) ==
    /\ qtasks[k].pc = "started" /\ qtasks[k].arg # "None"
    /\ \E draw \in {Interval(gen, py_random, Len(IBM_HARDWARE_BACKENDS) - 1)} :
          /\ qtasks' = [qtasks EXCEPT
                           ![k].pc = "sampled",
                           ![k].backend_name = IBM_HARDWARE_BACKENDS[draw[1] + 1]]
          /\ py_random' = draw[2]
    /\ UNCHANGED <<status, WorkflowVars, Inputs, Direct, failed, kq>>

\* backend_name is not None: the branch is skipped.
QGivenBackend(k) ==
    /\ qtasks[k].pc = "started" /\ qtasks[k].arg # "None"
    /\ qtasks' = [qtasks EXCEPT ![k].pc = "sampled", ![k].backend_name = qtasks[k].arg]
    /\ UNCHANGED <<status, WorkflowVars, Inputs, Direct, failed, kq, py_random>>

\* backend_name = random.sample(IBM_HARDWARE_BACKENDS, 1)[0]
QSampleBackend(k) ==
    /\ qtasks[k].pc = "started" /\ qtasks[k].arg = "None"
    /\ \E draw \in {Interval(gen, py_random, Len(IBM_HARDWARE_BACKENDS) - 1)} :
          /\ qtasks' = [qtasks EXCEPT
                           ![k].pc = "sampled",
                           ![k].backend_name = IBM_HARDWARE_BACKENDS[draw[1] + 1],
                           ![k].drew_at = {py_random},
                           ![k].reads = @ \cup {"IBM_HARDWARE_BACKENDS", "random"},
                           ![k].writes = @ \cup {"random"}]
          /\ py_random' = draw[2]
    /\ UNCHANGED <<status, WorkflowVars, Inputs, Direct, failed, kq>>

\* dev = qml.device(...); qml.QNode(_qkernel_circuit, dev)(x1, x2)
QRunCircuit(k) ==
    /\ qtasks[k].pc = "sampled"
    /\ qtasks' = [qtasks EXCEPT
                     ![k].pc = "done",
                     ![k].device = qtasks[k].backend_name,
                     ![k].pair = <<qtasks[k].x1, qtasks[k].x2>>,
                     ![k].value = qkernel_circuit_challenge(qtasks[k].x1, qtasks[k].x2),
                     ![k].reads = @ \cup {"OPERATOR"}]
    /\ UNCHANGED <<status, WorkflowVars, Inputs, Direct, failed, kq, py_random>>

NextQPU ==
    \/ \E k \in DOMAIN qtasks : QStart(k)
    \/ \E k \in DOMAIN qtasks : QGivenBackend(k)
    \/ \E k \in DOMAIN qtasks : QSampleBackend(k)
    \/ \E k \in DOMAIN qtasks : QRunCircuit(k)

SpecQPU == InitQPU /\ [][NextQPU]_vars

(***************************************************************************)
(* Failure.  A qkernel_circuit electron may raise (the token is refused,   *)
(* the backend is unavailable, the queue times out); nothing in the        *)
(* notebook catches it: the dispatch ends FAILED with no result, and the   *)
(* notebook's unpacking of result.result raises in turn.  A status of NONE *)
(* is a notebook that dispatched nothing and calls construct_K_matrix      *)
(* directly.                                                               *)
(***************************************************************************)
\* Mutant of FailQKernel: the node is run again after it raised.
RetryQKernel(k) ==
    /\ status = "RUNNING" /\ k \in running
    /\ failed' = failed \cup {k}
    /\ UNCHANGED <<status, WorkflowVars, Inputs, Direct, kq, py_random, qtasks>>

FailQKernel(k) ==
    /\ status = "RUNNING" /\ k \in running
    /\ status' = "FAILED"
    /\ failed' = failed \cup {k}
    /\ running' = running \ {k}
    /\ UNCHANGED <<tasks, K_train_values, K_test_values, started, results, done,
                   data, split, K_matrix_train, K_matrix_test, trained_svc,
                   metrics, result>>
    /\ UNCHANGED <<Inputs, Direct, kq, py_random, qtasks>>

\* get_result returns a result whose result is None: the unpacking raises.
UnpackNone ==
    /\ status = "FAILED"
    /\ status' = "RAISED"
    /\ UNCHANGED <<WorkflowVars, Inputs, Direct, Others>>

DirectConstructKMatrix == status = "NONE" /\ CallConstructKMatrix

InitFailure ==
    /\ variant = "challenge"
    /\ wine = CHOOSE w \in WineDatasets : TRUE
    /\ gen = CHOOSE g \in Generators : TRUE
    /\ np_random = RandomState(RANDOM_SEED)
    /\ tasks = <<>> /\ K_train_values = <<>> /\ K_test_values = <<>>
    /\ started = 0 /\ running = {} /\ results = <<>> /\ done = {}
    /\ data = NotYet /\ split = NotYet
    /\ K_matrix_train = NotYet /\ K_matrix_test = NotYet
    /\ trained_svc = NotYet /\ metrics = NotYet /\ result = NotYet
    /\ calls = <<>> /\ draws = 0
    /\ InitOthers
    /\ \/ status = "NEW" /\ rs = NotYet
       \/ /\ status = "NONE"
          /\ \E n1 \in 0..MaxDim, n2 \in 0..MaxDim,
                K_values \in SeqsUpTo(KernelValues, MaxLen) :
                rs = [K_values |-> K_values,
                      X1 |-> [k \in 1..n1 |-> k], X2 |-> [k \in 1..n2 |-> k],
                      called |-> FALSE, out |-> ValueError]

NextFailure ==
    \/ Dispatch
    \/ ExecGetData
    \/ ExecPartitionData
    \/ StartQKernel
    \/ \E k \in running : FinishQKernel(k)
    \/ \E k \in running : FailQKernel(k)
    \/ ExecConstructKTrain
    \/ ExecConstructKTest
    \/ ExecTrainQSVM
    \/ ExecGetMetrics
    \/ Complete
    \/ GetResult
    \/ UnpackNone
    \/ DirectConstructKMatrix

SpecFailure == InitFailure /\ [][NextFailure]_vars

(***************************************************************************)
(* Dispatch and wait.  The notebook cell dispatches the workflow and blocks *)
(* in get_result(dispatch_id, wait=True).  The cell runs on, the executor  *)
(* runs every electron whose inputs are ready, and the dispatcher marks    *)
(* the dispatch complete once the lattice's return value is ready: each of *)
(* these steps is taken if it stays possible.  An electron may still       *)
(* raise.                                                                  *)
(***************************************************************************)
InitWait ==
    /\ Init
    /\ wine = CHOOSE w \in WineDatasets : TRUE
    /\ gen = CHOOSE g \in Generators : TRUE

NextWait ==
    \/ Next
    \/ \E k \in running : FailQKernel(k)
    \/ UnpackNone

SpecWait == InitWait /\ [][NextWait]_vars /\ WF_vars(Next)

(***************************************************************************)
(* A kernel matrix assembled directly from two of the partition's sets:    *)
(* the flat list of kernel values is produced by nested loops, either as   *)
(* the workflow writes them (outer loop over X1, inner over X2) or with    *)
(* the loops the other way round, and handed to construct_K_matrix; the    *)
(* tutorial's nested comprehension is evaluated on the same sets.          *)
(***************************************************************************)
\* for j in range(n_inner): for i in range(n_outer): append(kernel(A[i], B[j]))
InnerLoopOverA(A, n_outer, B, n_inner) ==
    [k \in 1..(n_outer * n_inner) |->
        [x1 |-> [of |-> A, at |-> (k - 1) % n_outer],
         x2 |-> [of |-> B, at |-> (k - 1) \div n_outer]]]

SetNamed(sp, name) == IF name = "X_train" THEN sp.X_train ELSE sp.X_test

KernelValuesOf(kernel, sp, loop) ==
    [k \in DOMAIN loop |->
        qkernel_circuit(kernel, Subscript(sp, loop[k].x1), Subscript(sp, loop[k].x2))]

InitAssemble ==
    /\ variant \in {"tutorial", "challenge"}
    /\ wine \in WineDatasets
    /\ gen \in Generators
    /\ np_random = RandomState(RANDOM_SEED)
    /\ status = "NONE"
    /\ tasks = <<>> /\ K_train_values = <<>> /\ K_test_values = <<>>
    /\ started = 0 /\ running = {} /\ results = <<>> /\ done = {}
    /\ \E d \in {get_data(variant, wine)} :
          /\ data = d
          /\ \E out \in {partition_data(variant, gen, np_random, d.X, d.y)} :
                /\ out.ok
                /\ split = [f \in (DOMAIN out) \ {"np_random"} |-> out[f]]
    /\ K_matrix_train = NotYet /\ K_matrix_test = NotYet
    /\ trained_svc = NotYet /\ metrics = NotYet /\ result = NotYet
    /\ rs = [called |-> FALSE] /\ calls = <<>> /\ draws = 0
    /\ InitOthers

Assemble(A, B, order, kernel) ==
    /\ ~rs.called
    /\ \E X1 \in {SetNamed(split, A)}, X2 \in {SetNamed(split, B)} :
       \E loop \in {IF order = "outer_X1" THEN NestedLoop(A, Len(X1), B, Len(X2))
                    ELSE InnerLoopOverA(A, Len(X1), B, Len(X2))} :
       \E K_values \in {KernelValuesOf(kernel, split, loop)} :
          rs' = [called |-> TRUE, A |-> A, B |-> B, order |-> order, kernel |-> kernel,
                 K_values |-> K_values, X1 |-> X1, X2 |-> X2,
                 out |-> construct_K_matrix(K_values, X1, X2),
                 comprehension |-> IF kernel = "tutorial" THEN qkernel_matrix(X1, X2)
                                   ELSE kernel_rows(kernel, X1, X2)]
    /\ UNCHANGED <<status, WorkflowVars, Inputs, calls, draws, Others>>

NextAssemble ==
    \E A \in {"X_train", "X_test"}, B \in {"X_train", "X_test"},
       order \in {"outer_X1", "outer_X2"}, kernel \in {"tutorial", "challenge"} :
        Assemble(A, B, order, kernel)

SpecAssemble == InitAssemble /\ [][NextAssemble]_vars

(***************************************************************************)
(* The claims.                                                             *)
(***************************************************************************)
Shape(M) == <<NumRows(M), NumCols(M)>>

Rectangular(M) == \A i \in DOMAIN M : Len(M[i]) = NumCols(M)

\* C1: construct_K_matrix, given a flat K_values of length n1 * n2 with
\* n1 = len(X1) and n2 = len(X2), returns a matrix of shape (n1, n2) whose
\* entry (i, j) is K_values[i * n2 + j], for all 0 <= i < n1 and 0 <= j < n2.
C1_ReshapeRowMajor ==
    LET n1 == Len(rs.X1)
        n2 == Len(rs.X2)
    IN  (rs.called /\ Len(rs.K_values) = n1 * n2) =>
            /\ rs.out.ok
            /\ Len(rs.out.matrix) = n1
            /\ \A i \in 0..(n1 - 1) :
                  /\ Len(rs.out.matrix[i + 1]) = n2
                  /\ \A j \in 0..(n2 - 1) :
                        rs.out.matrix[i + 1][j + 1] = rs.K_values[i * n2 + j + 1]

\* A 2 x 3 reshape whose row-major and column-major layouts differ.
C1_Witness ==
    /\ rs.called /\ Len(rs.X1) = 2 /\ Len(rs.X2) = 3 /\ rs.out.ok
    /\ rs.out.matrix[1][2] # rs.K_values[3]
    /\ rs.out.matrix[1][2] = rs.K_values[2]

\* C2: in the challenge workflow the assembled matrices hold the kernel of the
\* samples their position names: K_matrix_train[i][j] is the kernel value of
\* (X_train[i], X_train[j]) and K_matrix_test[i][j] that of (X_test[i], X_train[j]).
C2_MatricesAligned ==
    variant = "challenge" =>
        /\ "K_matrix_train" \in done =>
              \A i \in 0..(N_TRAIN - 1), j \in 0..(N_TRAIN - 1) :
                  K_matrix_train[i + 1][j + 1]
                      = qkernel_circuit_challenge(split.X_train[i + 1], split.X_train[j + 1])
        /\ "K_matrix_test" \in done =>
              \A i \in 0..(N_TEST - 1), j \in 0..(N_TRAIN - 1) :
                  K_matrix_test[i + 1][j + 1]
                      = qkernel_circuit_challenge(split.X_test[i + 1], split.X_train[j + 1])

\* Both matrices assembled, from kernel values that are not all alike.
C2_Witness ==
    /\ variant = "challenge"
    /\ "K_matrix_train" \in done /\ "K_matrix_test" \in done
    /\ \E j \in 1..N_TRAIN : K_matrix_test[1][j] # K_matrix_test[2][j]
    /\ \E j \in 1..N_TRAIN : K_matrix_train[1][j] # K_matrix_train[1][1]

\* C3: the fitted SVM uses entry (i, j) of the training kernel matrix as the
\* similarity of training samples i and j, and predicts with entry (i, j) of the
\* test kernel matrix as the similarity of test sample i and training sample j;
\* it does not feed the matrices' rows to another kernel as feature vectors.
C3_PrecomputedKernel ==
    /\ "train_qsvm" \in done =>
          \A a \in DOMAIN K_matrix_train, b \in DOMAIN K_matrix_train :
              SVCSimilarity(trained_svc, K_matrix_train, K_matrix_train, a, b)
                  = [fn |-> "precomputed", arg |-> K_matrix_train[a][b]]
    /\ "get_metrics" \in done =>
          \A a \in DOMAIN K_matrix_test, b \in DOMAIN K_matrix_train :
              SVCSimilarity(trained_svc, K_matrix_test, K_matrix_train, a, b)
                  = [fn |-> "precomputed", arg |-> K_matrix_test[a][b]]

\* C4: in the challenge workflow the training kernel matrix has shape (6, 6),
\* the test kernel matrix shape (2, 6), the predicted label vector length 2 and
\* the confusion matrix shape (2, 2).
C4_EndToEndShapes ==
    variant = "challenge" =>
        /\ "K_matrix_train" \in done =>
              Shape(K_matrix_train) = <<6, 6>> /\ Rectangular(K_matrix_train)
        /\ "K_matrix_test" \in done =>
              Shape(K_matrix_test) = <<2, 6>> /\ Rectangular(K_matrix_test)
        /\ "get_metrics" \in done =>
              /\ Len(metrics.y_pred) = 2
              /\ Shape(metrics.M_conf) = <<2, 2>> /\ Rectangular(metrics.M_conf)
        /\ status \in {"COMPLETED", "RETURNED"} =>
              /\ Len(result.y_pred) = 2
              /\ Shape(result.M_conf) = <<2, 2>>

\* The challenge workflow has returned, and the classifier predicted one class
\* for both test samples.
C4_Witness ==
    /\ variant = "challenge" /\ status = "RETURNED"
    /\ result.y_pred[1] = result.y_pred[2]

\* The rows the workflow's loops subscript, zero-based, of X_train or of X_test.
Subscripted(name) ==
    { tasks[k].x1.at : k \in {t \in DOMAIN tasks : tasks[t].x1.of = name} }
        \cup { tasks[k].x2.at : k \in {t \in DOMAIN tasks : tasks[t].x2.of = name} }

\* C5: the challenge's partition_data yields exactly N_TRAIN = 6 training and
\* N_TEST = 2 test samples: its first split holds out exactly N_TOT = 8 samples
\* and its second divides them into 6 and 2, so the workflow's loops subscript
\* exactly the rows that exist.
C5_PartitionCounts ==
    (variant = "challenge" /\ "partition_data" \in done) =>
        /\ Len(split.held_rows) = N_TOT /\ N_TOT = 8
        /\ Len(split.X_train) = N_TRAIN /\ Len(split.y_train) = N_TRAIN /\ N_TRAIN = 6
        /\ Len(split.X_test) = N_TEST /\ Len(split.y_test) = N_TEST /\ N_TEST = 2
        /\ Subscripted("X_train") = 0..(Len(split.X_train) - 1)
        /\ Subscripted("X_test") = 0..(Len(split.X_test) - 1)

\* The two-class dataset of 130 wines has been partitioned.
C5_Witness ==
    /\ variant = "challenge" /\ "partition_data" \in done
    /\ Len(data.X) = WINE_CLASS_COUNTS[1] + WINE_CLASS_COUNTS[2]
    /\ Len(tasks) = N_TRAIN * N_TRAIN + N_TEST * N_TRAIN

Returned(out) == <<out.ok, out.X_train, out.X_test, out.y_train, out.y_test>>

\* C6: partition_data is deterministic: on the same (X, y), with the fixed
\* RANDOM_SEED, any two calls return the same X_train, X_test, y_train and
\* y_test, samples in the same order.
C6_PartitionDeterministic ==
    \A a \in DOMAIN calls, b \in DOMAIN calls :
        Returned(calls[a].out) = Returned(calls[b].out)

\* Two calls of the challenge's partition_data, made with numpy's global
\* generator in different states.
C6_Witness ==
    /\ variant = "challenge"
    /\ \E a \in DOMAIN calls, b \in DOMAIN calls :
          /\ calls[a].np_random # calls[b].np_random
          /\ calls[a].out.ok /\ calls[b].out.ok

\* C7: partition_data's training and test sets are disjoint, every returned
\* sample is a row of the input X and every returned label is the label of its
\* sample; in the challenge the two sets together are the N_TOT samples the first
\* split held out, in the tutorial they are the whole input.
C7_PartitionDisjoint ==
    "partition_data" \in done =>
        LET train == Range(split.train_rows)
            test  == Range(split.test_rows)
        IN  /\ train \cap test = {}
            /\ train \cup test \subseteq DOMAIN data.X
            /\ Len(split.X_train) = Len(split.train_rows)
            /\ Len(split.X_test) = Len(split.test_rows)
            /\ Len(split.y_train) = Len(split.train_rows)
            /\ Len(split.y_test) = Len(split.test_rows)
            /\ \A k \in DOMAIN split.train_rows :
                  /\ split.X_train[k] = data.X[split.train_rows[k]]
                  /\ split.y_train[k] = data.y[split.train_rows[k]]
            /\ \A k \in DOMAIN split.test_rows :
                  /\ split.X_test[k] = data.X[split.test_rows[k]]
                  /\ split.y_test[k] = data.y[split.test_rows[k]]
            /\ variant = "challenge" =>
                  /\ train \cup test = Range(split.held_rows)
                  /\ Cardinality(train \cup test) = N_TOT
            /\ variant = "tutorial" => train \cup test = DOMAIN data.X

\* The tutorial's partition has run: both sets hold samples of every class.
C7_Witness ==
    /\ variant = "tutorial" /\ "partition_data" \in done
    /\ Range(split.y_train) = {0, 1, 2} /\ Range(split.y_test) = {0, 1, 2}

\* C8: every value get_data returns lies in the half-open [0, 2 PI): for each
\* sample and each of the two columns 0 <= v < 2 PI, the column's maximum
\* included.  (v = 2 PI * num / den.)
C8_HalfOpenDomain ==
    "get_data" \in done =>
        \A r \in DOMAIN data.X : \A c \in 1..2 :
            0 <= data.X[r][c].num /\ data.X[r][c].num < data.X[r][c].den

\* C9: the challenge's get_data returns labels 0 and 1 only, keeps every input
\* sample labelled 0 or 1, and filters X and y by the same index: they have the
\* same length and row k of X carries label y[k].  Stated of the data as the
\* electron returns it: no later step of the workflow writes it.
C9_TwoClasses ==
    (variant = "challenge" /\ done = {"get_data"}) =>
        /\ \A k \in DOMAIN data.y : data.y[k] \in {0, 1}
        /\ Len(data.X) = Len(data.y)
        /\ Len(data.rows) = Len(data.y)
        /\ Range(data.rows) = {r \in 1..WINE_SAMPLES : WineLabel(r) \in {0, 1}}
        /\ Len(data.rows) = Cardinality({r \in 1..WINE_SAMPLES : WineLabel(r) \in {0, 1}})
        /\ \A k \in DOMAIN data.y :
              /\ data.y[k] = WineLabel(data.rows[k])
              /\ \A c \in 1..2 :
                    data.X[k][c].num - data.X[1][c].num
                        = WineFeature(wine, data.rows[k], 9 + c)
                              - WineFeature(wine, data.rows[1], 9 + c)

\* The challenge's get_data has returned, from a dataset that holds wines of
\* the third class.
C9_Witness ==
    /\ variant = "challenge" /\ done = {"get_data"}
    /\ Len(data.y) < WINE_SAMPLES
    /\ Range(data.y) = {0, 1}

\* C10: at every consumer the shapes agree: the training kernel matrix is square
\* with one row per label of y_train, the test kernel matrix has one row per
\* label of y_test and one column per training sample, so fit and predict are
\* never called with mismatched lengths.
C10_ShapeCompatibility ==
    /\ "K_matrix_train" \in done =>
          /\ Shape(K_matrix_train) = <<Len(split.y_train), Len(split.y_train)>>
          /\ Rectangular(K_matrix_train)
    /\ "K_matrix_test" \in done =>
          /\ Shape(K_matrix_test) = <<Len(split.y_test), Len(split.X_train)>>
          /\ Rectangular(K_matrix_test)
    /\ "train_qsvm" \in done =>
          /\ trained_svc.ok
          /\ trained_svc.shape_fit_[1] = Len(split.y_train)
    /\ ("train_qsvm" \in done /\ "K_matrix_test" \in done) =>
          NumCols(K_matrix_test) = trained_svc.shape_fit_[2]
    /\ "get_metrics" \in done => Len(metrics.y_pred) = Len(split.y_test)

\* The tutorial's classifier has been fitted and has predicted.
C10_Witness ==
    /\ variant = "tutorial" /\ "get_metrics" \in done
    /\ Len(split.y_train) > Len(split.y_test) /\ Len(split.y_test) > 0

\* C11: self-similarity: for any sample x the ideal kernel circuit gives
\* qkernel_circuit(x, x) = 1, the adjoint embedding undoing the embedding.
C11_SelfSimilarity ==
    kq.checked => kq.k11 = KernelOne /\ kq.k22 = KernelOne /\ kq.K[1][1] = KernelOne

\* The check ran on two samples the kernel tells apart.
C11_Witness ==
    /\ kq.checked /\ kq.x1 # kq.x2 /\ kq.k12 < KernelOne
    /\ kq.x1[1].num > 0 /\ kq.x1[2].num > 0

C14_NoSharedMutableState ==
    /\ \A j \in InFlight, k \in InFlight :
          j # k => qtasks[j].writes \cap (qtasks[k].reads \cup qtasks[k].writes) = {}
    /\ \A k \in DOMAIN qtasks :
          qtasks[k].pc = "done" =>
              qtasks[k].value = qkernel_circuit_challenge(qtasks[k].x1, qtasks[k].x2)

\* What is downstream of a qkernel_circuit node in the task graph.
Downstream(k) ==
    (IF k \in Range(K_train_values) THEN {"K_matrix_train", "train_qsvm", "get_metrics"}
     ELSE {})
    \cup (IF k \in Range(K_test_values) THEN {"K_matrix_test", "get_metrics"} ELSE {})

Stopped == status \in {"FAILED", "RAISED"}

\* C15: failures propagate with no recovery: construct_K_matrix given a number
\* of values other than len(X1) * len(X2) raises and returns no matrix; when a
\* kernel-evaluation task fails the dispatch fails, nothing downstream of the
\* failed task is produced, the workflow returns nothing, the failed task is not
\* run again, and once failed the dispatch does nothing more.
C15_FailuresPropagate ==
    /\ [](/\ (status = "NONE" /\ rs.called
                  /\ Len(rs.K_values) # Len(rs.X1) * Len(rs.X2)) => rs.out = ValueError
          /\ failed # {} => Stopped
          /\ failed \cap running = {}
          /\ failed \cap DOMAIN results = {}
          /\ \A k \in failed : Downstream(k) \cap done = {}
          /\ Stopped => Len(result) = 0)
    /\ [][Stopped => (Stopped' /\ UNCHANGED <<WorkflowVars, failed>>)]_vars

\* A training-matrix task failed after some other
\* tasks had finished, and the notebook's unpacking raised.
C15_Witness ==
    /\ status = "RAISED"
    /\ \E k \in failed : k \in Range(K_train_values)
    /\ DOMAIN results # {}

\* The flat list the workflow's loops would give: outer over X1, inner over X2.
RowMajorValues(kernel, X1, X2) ==
    [k \in 1..(Len(X1) * Len(X2)) |->
        qkernel_circuit(kernel, X1[((k - 1) \div Len(X2)) + 1], X2[((k - 1) % Len(X2)) + 1])]

\* C16: construct_K_matrix validates no ordering: given a flat list of the right
\* length whose values came in another order than row-major (inner loop over
\* X1), it raises nothing and returns a matrix of shape (n1, n2), and that
\* matrix is mis-aligned: some entry (i, j) is not the kernel value of
\* (X1[i], X2[j]).
C16_NoOrderingValidation ==
    (/\ rs.called /\ rs.order = "outer_X2"
     /\ rs.K_values # RowMajorValues(rs.kernel, rs.X1, rs.X2)) =>
        /\ Len(rs.K_values) = Len(rs.X1) * Len(rs.X2)
        /\ rs.out.ok
        /\ Shape(rs.out.matrix) = <<Len(rs.X1), Len(rs.X2)>>
        /\ Rectangular(rs.out.matrix)
        /\ \E i \in DOMAIN rs.X1, j \in DOMAIN rs.X2 :
              rs.out.matrix[i][j] # qkernel_circuit(rs.kernel, rs.X1[i], rs.X2[j])

\* The test matrix of the challenge, from a list written with the loops the
\* other way round.
C16_Witness ==
    /\ variant = "challenge" /\ rs.called /\ rs.order = "outer_X2"
    /\ rs.A = "X_test" /\ rs.B = "X_train" /\ rs.kernel = "challenge"
    /\ rs.K_values # RowMajorValues(rs.kernel, rs.X1, rs.X2)

\* C19: for the same kernel function and the same sets, the tutorial's nested
\* comprehension qkernel_matrix(X1, X2) and the challenge's flat list (outer
\* loop over X1, inner over X2) reshaped by construct_K_matrix give the same
\* matrix: same shape, and equal entries at every (i, j).
C19_ComprehensionEqualsReshape ==
    (rs.called /\ rs.order = "outer_X1") =>
        /\ rs.out.ok
        /\ Shape(rs.out.matrix) = Shape(rs.comprehension)
        /\ Shape(rs.out.matrix) = <<Len(rs.X1), Len(rs.X2)>>
        /\ \A i \in DOMAIN rs.X1, j \in DOMAIN rs.X2 :
              rs.out.matrix[i][j] = rs.comprehension[i][j]

\* A rectangular matrix with the tutorial's kernel whose entries are not all
\* the same, so that a transposition or a shift would show.
C19_Witness ==
    /\ rs.called /\ rs.order = "outer_X1" /\ rs.kernel = "tutorial"
    /\ rs.A = "X_test" /\ rs.B = "X_train"
    /\ Len(rs.X1) # Len(rs.X2)
    /\ \E i \in DOMAIN rs.X1, j \in DOMAIN rs.X2 :
          rs.out.matrix[i][j] # rs.out.matrix[1][1]

Completes(node) == node \notin done /\ node \in done'

AllReturned(ids) == \A k \in DOMAIN ids : ids[k] \in DOMAIN results /\ ids[k] \notin running

\* C17: under every schedule of the task graph the pipeline order is kept:
\* partition_data runs only after get_data has completed, a kernel evaluation
\* starts only after partition_data, each construct_K_matrix runs only after
\* all of its kernel evaluations (36 for training, 12 for test) have
\* completed, train_qsvm only after the training matrix is assembled, and
\* get_metrics only after both train_qsvm and the test matrix.
C17_PipelineOrder ==
    [][/\ Completes("partition_data") => "get_data" \in done
       /\ started' # started => "partition_data" \in done
       /\ Completes("K_matrix_train") =>
             /\ "partition_data" \in done
             /\ variant = "challenge" =>
                   /\ Len(K_train_values) = N_TRAIN * N_TRAIN
                   /\ AllReturned(K_train_values)
       /\ Completes("K_matrix_test") =>
             /\ "partition_data" \in done
             /\ variant = "challenge" =>
                   /\ Len(K_test_values) = N_TEST * N_TRAIN
                   /\ AllReturned(K_test_values)
       /\ Completes("train_qsvm") => "K_matrix_train" \in done
       /\ Completes("get_metrics") =>
             "train_qsvm" \in done /\ "K_matrix_test" \in done]_vars

\* A schedule that leaves the program order: the test matrix is assembled
\* while a training-matrix evaluation is still running.
C17_Witness ==
    /\ variant = "challenge"
    /\ "K_matrix_test" \in done /\ "K_matrix_train" \notin done
    /\ \E k \in running : k \in Range(K_train_values)

\* The kernel value of the pair of samples a loop position names.
ValueAt(position) ==
    qkernel_circuit_challenge(Subscript(split, position.x1), Subscript(split, position.x2))

\* The matrix a run that evaluates the loop's pairs one after the other, in
\* program order, assembles.
InProgramOrder(loop, X1, X2) ==
    construct_K_matrix([k \in DOMAIN loop |-> ValueAt(loop[k])], X1, X2).matrix

\* C18: the assembled matrices do not depend on the order in which the
\* kernel-evaluation tasks complete: a value's place in the flat sequence is
\* the loop position at which its task was created, so whatever the
\* interleaving of completions, K_matrix_train and K_matrix_test are the
\* matrices of the run in program order.
C18_CompletionOrderIrrelevant ==
    variant = "challenge" =>
        /\ \A k \in DOMAIN results : results[k] = ValueAt(tasks[k])
        /\ \A k \in DOMAIN K_train_values : tasks[K_train_values[k]] = TrainLoop[k]
        /\ \A k \in DOMAIN K_test_values : tasks[K_test_values[k]] = TestLoop[k]
        /\ "K_matrix_train" \in done =>
              K_matrix_train = InProgramOrder(TrainLoop, split.X_train, split.X_train)
        /\ "K_matrix_test" \in done =>
              K_matrix_test = InProgramOrder(TestLoop, split.X_test, split.X_train)

\* A task created later has completed while one created before it is still
\* running, and the two values differ.
C18_Witness ==
    /\ variant = "challenge"
    /\ \E j \in running, k \in DOMAIN results :
          j < k /\ results[k] # ValueAt(tasks[j])

\* The tasks created for the ordered pair (A[i], B[j]), zero-based.
TasksFor(A, i, B, j) ==
    { k \in DOMAIN tasks :
        tasks[k] = [x1 |-> [of |-> A, at |-> i], x2 |-> [of |-> B, at |-> j]] }

\* C20: the challenge workflow creates exactly N_TRAIN*N_TRAIN + N_TEST*N_TRAIN
\* = 48 kernel-evaluation tasks, exactly one per ordered pair: one for each
\* (X_train[i], X_train[j]), i = j included and (i, j) as well as (j, i), and
\* one for each (X_test[i], X_train[j]); no pair is evaluated twice, none is
\* skipped.
C20_OneTaskPerOrderedPair ==
    /\ [](variant = "challenge" /\ status # "NEW" =>
            /\ Len(tasks) = N_TRAIN * N_TRAIN + N_TEST * N_TRAIN
            /\ Len(tasks) = 48
            /\ started = 0 =>
                  /\ \A i \in 0..(N_TRAIN - 1), j \in 0..(N_TRAIN - 1) :
                        Cardinality(TasksFor("X_train", i, "X_train", j)) = 1
                  /\ \A i \in 0..(N_TEST - 1), j \in 0..(N_TRAIN - 1) :
                        Cardinality(TasksFor("X_test", i, "X_train", j)) = 1
            /\ started <= Len(tasks)
            /\ DOMAIN results \cap running = {}
            /\ DOMAIN results \cup running = 1..started
            /\ status = "RETURNED" => DOMAIN results = DOMAIN tasks)
    /\ [][/\ status # "NEW" => tasks' = tasks
          /\ \A k \in DOMAIN results : k \in DOMAIN results' /\ k \notin running']_vars

\* The workflow has returned with every task evaluated; the pair (X_train[1],
\* X_train[3]) and its mirror image had a task each, as had (X_train[2],
\* X_train[2]).
C20_Witness ==
    /\ variant = "challenge" /\ status = "RETURNED"
    /\ Cardinality(DOMAIN results) = 48
    /\ TasksFor("X_train", 1, "X_train", 3) # TasksFor("X_train", 3, "X_train", 1)
    /\ TasksFor("X_train", 2, "X_train", 2) # {}

\* C21: backend selection in the solution's qkernel_circuit.  With
\* backend_name None the device is created on a member of
\* IBM_HARDWARE_BACKENDS, the one the task's own draw from the generator
\* selects; with backend_name given, exactly that backend is used and the
\* task makes no random choice; and whatever the backend, the circuit is
\* evaluated on the pair (x1, x2) the task was called with.
C21_BackendSelection ==
    /\ [](\A k \in DOMAIN qtasks :
            LET t == qtasks[k] IN
            /\ (t.arg = "None" /\ t.pc \in {"sampled", "done"}) =>
                  /\ t.backend_name \in Range(IBM_HARDWARE_BACKENDS)
                  /\ \E s \in t.drew_at :
                        t.backend_name
                            = IBM_HARDWARE_BACKENDS[Interval(gen, s, Len(IBM_HARDWARE_BACKENDS) - 1)[1] + 1]
                  /\ "random" \in t.writes
            /\ (t.arg # "None" /\ t.pc \in {"sampled", "done"}) =>
                  /\ t.backend_name = t.arg
                  /\ t.drew_at = {}
                  /\ "random" \notin t.reads \cup t.writes
            /\ t.pc = "done" =>
                  /\ t.device = t.backend_name
                  /\ t.pair = <<t.x1, t.x2>>
                  /\ t.value = qkernel_circuit_challenge(t.x1, t.x2))
    /\ [][\A k \in DOMAIN qtasks :
            /\ qtasks'[k].x1 = qtasks[k].x1 /\ qtasks'[k].x2 = qtasks[k].x2
            /\ qtasks'[k].arg = qtasks[k].arg
            /\ qtasks[k].arg # "None" /\ qtasks'[k].pc # qtasks[k].pc
                  => py_random' = py_random
            /\ qtasks[k].pc \in {"sampled", "done"}
                  => qtasks'[k].backend_name = qtasks[k].backend_name]_vars

\* Two tasks drew different backends, a third was given a backend that is not
\* in the list, and all three have run.
C21_Witness ==
    \E i, j, k \in DOMAIN qtasks :
        /\ qtasks[i].pc = "done" /\ qtasks[j].pc = "done" /\ qtasks[k].pc = "done"
        /\ qtasks[i].arg = "None" /\ qtasks[j].arg = "None"
        /\ qtasks[i].device # qtasks[j].device
        /\ qtasks[k].arg \notin Range(IBM_HARDWARE_BACKENDS) \cup {"None"}
        /\ qtasks[k].device = qtasks[k].arg
        /\ qtasks[i].pair # qtasks[k].pair

\* C22: dispatch-and-wait terminates.  Under fair scheduling, if every electron
\* of the workflow completes (none raises), the blocking
\* get_result(dispatch_id, wait=True) eventually returns; it returns only
\* after get_metrics has completed, and what the notebook unpacks is the tuple
\* ((X_train, X_test, y_train, y_test), y_pred, M_conf).
C22_DispatchAndWaitTerminates ==
    /\ [](status = "RETURNED" =>
            /\ "get_metrics" \in done
            /\ done = {"get_data", "partition_data", "K_matrix_train", "K_matrix_test",
                       "train_qsvm", "get_metrics"}
            /\ running = {} /\ DOMAIN results = DOMAIN tasks
            /\ result = [data |-> <<split.X_train, split.X_test, split.y_train, split.y_test>>,
                         y_pred |-> metrics.y_pred, M_conf |-> metrics.M_conf])
    /\ [](failed = {}) => <>(status = "RETURNED")

\* The challenge's 48 evaluations and the rest of the graph have run, and the
\* call has returned a confusion matrix of the two test samples.
C22_Witness ==
    /\ variant = "challenge" /\ status = "RETURNED" /\ failed = {}
    /\ Cardinality(DOMAIN results) = N_TRAIN * N_TRAIN + N_TEST * N_TRAIN
    /\ Len(result.y_pred) = N_TEST
    /\ Len(result.M_conf) >= 1 /\ Len(result.data) = 4

====
